---- MODULE Spec2Model ----
(***************************************************************************)
(* Model of pmw (Pin My Workflows), src/main.go.                           *)
(*                                                                         *)
(* src/main.go carries two revisions of the program one after the other:   *)
(* lines 1-325 (the first revision, whose getCommitSha dereferences nested *)
(* annotated tags) and lines 326-693 (the current revision, with           *)
(* compareVersions / findLatestVersionTag and indentation-preserving       *)
(* rewrite).  The run modelled here is the current revision; the first     *)
(* revision's getCommitSha is modelled as getCommitSha_v1.                 *)
(*                                                                         *)
(* Text is modelled as sequences of one-character strings, so that         *)
(* splitting, prefix tests, case folding and number scanning are computed  *)
(* the way the Go code computes them.                                      *)
(***************************************************************************)
EXTENDS Integers, Sequences, FiniteSets, TLC

(***************************************************************************)
(* Bounds of the model (not program constants).                            *)
(***************************************************************************)
\* longest version string enumerated exhaustively for compareVersions
MaxVerLen == 3
\* longest tag listing enumerated for findLatestVersionTag
MaxTags == 3
\* longest chain of nested annotated tags
MaxChain == 3
\* number of workflow files found by the walk
NumFiles == 2

(***************************************************************************)
(* Characters and elementary string functions (Go: package strings, fmt).  *)
(***************************************************************************)
Digits == {"0", "1", "2", "3", "4", "5", "6", "7", "8", "9"}

DigitVal(c) ==
    CASE c = "0" -> 0 [] c = "1" -> 1 [] c = "2" -> 2 [] c = "3" -> 3
      [] c = "4" -> 4 [] c = "5" -> 5 [] c = "6" -> 6 [] c = "7" -> 7
      [] c = "8" -> 8 [] c = "9" -> 9

\* the characters unicode.IsSpace accepts that occur in the model
SpaceChars == {" ", "\t", "\n"}

\* strings.ToLower / the simple case folding of strings.EqualFold, on ASCII
LowerChar(c) ==
    CASE c = "A" -> "a" [] c = "B" -> "b" [] c = "C" -> "c" [] c = "D" -> "d"
      [] c = "E" -> "e" [] c = "F" -> "f" [] c = "M" -> "m" [] c = "N" -> "n"
      [] c = "Q" -> "q" [] c = "S" -> "s" [] c = "V" -> "v" [] c = "Y" -> "y"
      [] OTHER -> c

ToLower(s) == [i \in 1..Len(s) |-> LowerChar(s[i])]

EqualFold(s, t) ==
    /\ Len(s) = Len(t)
    /\ \A i \in 1..Len(s) : LowerChar(s[i]) = LowerChar(t[i])

HasPrefix(s, p) ==
    /\ Len(p) <= Len(s)
    /\ SubSeq(s, 1, Len(p)) = p

TrimPrefix(s, p) == IF HasPrefix(s, p) THEN SubSeq(s, Len(p) + 1, Len(s)) ELSE s

RECURSIVE TrimLeft(_)
TrimLeft(s) ==
    IF s # <<>> /\ Head(s) \in SpaceChars THEN TrimLeft(Tail(s)) ELSE s

RECURSIVE TrimRight(_)
TrimRight(s) ==
    IF s # <<>> /\ s[Len(s)] \in SpaceChars
    THEN TrimRight(SubSeq(s, 1, Len(s) - 1))
    ELSE s

TrimSpace(s) == TrimRight(TrimLeft(s))

\* strings.Split(s, sep) for a one-character sep: n separators give n+1 parts,
\* and "" gives one empty part
RECURSIVE SplitFrom(_, _, _, _)
SplitFrom(s, sep, cur, acc) ==
    IF s = <<>> THEN Append(acc, cur)
    ELSE IF Head(s) = sep THEN SplitFrom(Tail(s), sep, <<>>, Append(acc, cur))
    ELSE SplitFrom(Tail(s), sep, Append(cur, Head(s)), acc)

Split(s, sep) == SplitFrom(s, sep, <<>>, <<>>)

\* value of the longest run of decimal digits at the start of s, and its length
RECURSIVE DigitRun(_, _, _)
DigitRun(s, val, n) ==
    IF s # <<>> /\ Head(s) \in Digits
    THEN DigitRun(Tail(s), 10 * val + DigitVal(Head(s)), n + 1)
    ELSE [val |-> val, n |-> n]

\* fmt.Sscanf skips leading blanks (a newline is an error and is not skipped)
RECURSIVE SkipBlanks(_)
SkipBlanks(s) ==
    IF s # <<>> /\ Head(s) \in {" ", "\t"} THEN SkipBlanks(Tail(s)) ELSE s

\* fmt.Sscanf(part, "%d", &num) on a zero-initialised num: leading blanks are
\* skipped, one sign is accepted, the digits that follow are converted and the
\* rest of the input is ignored; with no digit the scan fails and num stays 0.
ScanInt(part) ==
    LET t    == SkipBlanks(part)
        neg  == t # <<>> /\ Head(t) = "-"
        sgn  == t # <<>> /\ Head(t) \in {"+", "-"}
        body == IF sgn THEN Tail(t) ELSE t
        run  == DigitRun(body, 0, 0)
    IN  IF run.n = 0 THEN 0
        ELSE IF neg THEN 0 - run.val ELSE run.val

(***************************************************************************)
(* compareVersions (src/main.go 434-456).                                  *)
(***************************************************************************)
RECURSIVE CompareFrom(_, _, _, _)
CompareFrom(parts1, parts2, i, maxLen) ==
    IF i > maxLen THEN 0
    ELSE LET num1 == IF i <= Len(parts1) THEN ScanInt(parts1[i]) ELSE 0
             num2 == IF i <= Len(parts2) THEN ScanInt(parts2[i]) ELSE 0
         IN  IF num1 > num2 THEN 1
             ELSE IF num1 < num2 THEN -1
             ELSE CompareFrom(parts1, parts2, i + 1, maxLen)

\* mutant: the loop runs over the shorter of the two versions
compareVersionsMinLen(v1, v2) ==
    LET parts1 == Split(v1, ".")
        parts2 == Split(v2, ".")
        minLen == IF Len(parts2) < Len(parts1) THEN Len(parts2) ELSE Len(parts1)
    IN  CompareFrom(parts1, parts2, 1, minLen)

compareVersions(v1, v2) ==
    LET parts1 == Split(v1, ".")
        parts2 == Split(v2, ".")
        maxLen == IF Len(parts2) > Len(parts1) THEN Len(parts2) ELSE Len(parts1)
    IN  CompareFrom(parts1, parts2, 1, maxLen)

(***************************************************************************)
(* Commit identifiers: 40 lowercase hexadecimal characters.                *)
(***************************************************************************)
ShaLen == 40

HexLower == Digits \cup {"a", "b", "c", "d", "e", "f"}

\* the commit id made of the hexadecimal character c repeated
Sha(c) == [i \in 1..ShaLen |-> c]

\* mutant: the character class written with upper-case letters
IsCommitHashUpper(tag) ==
    /\ Len(tag) = ShaLen
    /\ \A i \in 1..Len(tag) : tag[i] \in Digits \cup {"A", "B", "C", "D", "E", "F"}

\* regexp ^[0-9a-f]{40}$ (src/main.go 563)
IsCommitHash(tag) ==
    /\ Len(tag) = ShaLen
    /\ \A i \in 1..Len(tag) : tag[i] \in HexLower

Master == <<"m", "a", "s", "t", "e", "r">>
Main == <<"m", "a", "i", "n">>

(***************************************************************************)
(* The remote service.  A repository is a record                           *)
(*   tags    : the tag listing, a sequence of [name, sha]                  *)
(*   heads   : the branches that exist, branch name -> [type, sha]         *)
(*   tagrefs : the tag refs that exist, tag name -> [type, sha]            *)
(*   tagobjs : the annotated tag objects, object id -> [type, sha]         *)
(* A request for something that is not there answers 404.  Any request can *)
(* also fail for other reasons: failAt is the number of the request of one *)
(* resolution that gets a non-200 answer (0: none does).                   *)
(***************************************************************************)
NoSuch == [status |-> 404]
ServerError == [status |-> 500]

\* GET /repos/o/r/git/ref/heads/<branch>
getBranchHead(remote, branch) ==
    IF branch \in DOMAIN remote.heads
    THEN [status |-> 200, object |-> remote.heads[branch]]
    ELSE NoSuch

\* GET /repos/o/r/git/ref/tags/<tag>
getTagRef(remote, tag) ==
    IF tag \in DOMAIN remote.tagrefs
    THEN [status |-> 200, object |-> remote.tagrefs[tag]]
    ELSE NoSuch

\* GET /repos/o/r/git/tags/<sha>
getTagObject(remote, sha) ==
    IF sha \in DOMAIN remote.tagobjs
    THEN [status |-> 200, object |-> remote.tagobjs[sha]]
    ELSE NoSuch

\* what a resolution returns: (commitSha, err) and the notes it printed
Failure == [ok |-> FALSE, sha |-> <<>>, notes |-> 0]
Success(sha, notes) == [ok |-> TRUE, sha |-> sha, notes |-> notes]

(***************************************************************************)
(* findLatestVersionTag (src/main.go 460-501).  sort.Slice is not stable:  *)
(* after the sort filtered[0] is some name that no other filtered name is  *)
(* "less" than, i.e. any maximal one; the operator returns every result    *)
(* the call can produce and the caller picks one.                          *)
(***************************************************************************)
Filtered(tags, prefix) ==
    {tags[i].name : i \in {j \in 1..Len(tags) : HasPrefix(tags[j].name, prefix)}}

\* mutant: the sort in ascending order
SortLessAscending(n1, n2) ==
    compareVersions(TrimPrefix(n1, <<"v">>), TrimPrefix(n2, <<"v">>)) < 0

\* less(i, j) of the sort: filtered[i] goes before filtered[j]
SortLess(n1, n2) ==
    compareVersions(TrimPrefix(n1, <<"v">>), TrimPrefix(n2, <<"v">>)) > 0

SortedFirst(filtered) ==
    {n \in filtered : \A m \in filtered : ~SortLess(m, n)}

\* the loop of lines 495-499: the first listed tag with that name
ShaOfName(tags, name) ==
    LET idx == {i \in 1..Len(tags) : tags[i].name = name}
    IN  IF idx = {} THEN Failure
        ELSE Success(tags[CHOOSE i \in idx : \A j \in idx : i <= j].sha, 0)

findLatestVersionTag(remote, prefix, failAt) ==
    IF failAt = 1 THEN {Failure}
    ELSE LET filtered == Filtered(remote.tags, prefix)
         IN  IF filtered = {} THEN {Failure}
             ELSE {ShaOfName(remote.tags, latestTag) :
                       latestTag \in SortedFirst(filtered)}

(***************************************************************************)
(* getCommitSha, current revision (src/main.go 505-527): the branch head's *)
(* object id is returned as it is, whatever its type.                      *)
(***************************************************************************)
\* mutant: the status of the branch request is not looked at; the body of an
\* error answer decodes to an empty object id
getCommitShaNoStatusCheck(remote, tag, failAt) ==
    IF tag = Master \/ tag = Main
    THEN LET resp == IF failAt = 1 THEN ServerError
                     ELSE getBranchHead(remote, tag)
         IN  IF resp.status # 200 THEN {Success(<<>>, 0)}
             ELSE {Success(resp.object.sha, 0)}
    ELSE findLatestVersionTag(remote, tag, failAt)

getCommitSha(remote, tag, failAt) ==
    IF tag = Master \/ tag = Main
    THEN LET resp == IF failAt = 1 THEN ServerError
                     ELSE getBranchHead(remote, tag)
         IN  IF resp.status # 200 THEN {Failure}
             ELSE {Success(resp.object.sha, 0)}
    ELSE findLatestVersionTag(remote, tag, failAt)

(***************************************************************************)
(* getCommitSha, first revision (src/main.go 109-166), with resolveTag     *)
(* (90-105).                                                               *)
(***************************************************************************)
\* resolveTag: the target id of the tag object sha, or an error
resolveTag(remote, sha, fails) ==
    LET resp == IF fails THEN ServerError ELSE getTagObject(remote, sha)
    IN  IF resp.status # 200 THEN [ok |-> FALSE, sha |-> <<>>]
        ELSE [ok |-> TRUE, sha |-> resp.object.sha]

\* the loop of lines 133-161, entered with ref.Object.Type = "tag"; calls is
\* the number of requests made so far
RECURSIVE DerefLoop(_, _, _, _)
DerefLoop(remote, commitSha, calls, failAt) ==
    LET resolved == resolveTag(remote, commitSha, failAt = calls + 1)
    IN  IF ~resolved.ok THEN Failure
        ELSE LET resp2 == IF failAt = calls + 2 THEN ServerError
                          ELSE getTagObject(remote, resolved.sha)
             IN  IF resp2.status # 200 THEN Success(resolved.sha, 1)
                 ELSE IF resp2.object.type = "tag"
                      THEN DerefLoop(remote, resolved.sha, calls + 2, failAt)
                      ELSE Success(resolved.sha, 1)

getCommitSha_v1(remote, tag, failAt) ==
    LET resp == IF failAt = 1 THEN ServerError
                ELSE IF tag = Master THEN getBranchHead(remote, tag)
                ELSE getTagRef(remote, tag)
    IN  IF resp.status # 200 THEN {Failure}
        ELSE IF resp.object.type = "tag"
             THEN {DerefLoop(remote, resp.object.sha, 1, failAt)}
             ELSE {Success(resp.object.sha, 0)}

(***************************************************************************)
(* Reference parsing: usageRegex (src/main.go 541) and FindStringSubmatch  *)
(* (556).  A line is a sequence of characters.  The regular expression is  *)
(*     uses:\s*([^/]+)/([^@]+)@(\S+)                                       *)
(* and the leftmost match is taken: owner ends at the first "/" after      *)
(* "uses:", repo at the first "@" after that, and the ref is the longest   *)
(* run of non-space characters that follows.                               *)
(***************************************************************************)
Uses == <<"u", "s", "e", "s", ":">>

\* the characters \s matches
RegexSpace == {" ", "\t", "\n", "\r", "\f"}

NoMatch == [matched |-> FALSE, owner |-> <<>>, repo |-> <<>>, tag |-> <<>>]

Least(S) == CHOOSE x \in S : \A y \in S : x <= y

\* the match that starts at position p, if there is one
MatchAt(line, p) ==
    LET n == Len(line)
        a == p + Len(Uses)
        slashes == {q \in a..n : line[q] = "/"}
    IN  IF p + Len(Uses) - 1 > n \/ SubSeq(line, p, p + Len(Uses) - 1) # Uses
           \/ slashes = {}
        THEN NoMatch
        ELSE LET q == Least(slashes)
                 nonSpace == {k \in a..q : line[k] \notin RegexSpace}
                 \* \s* is greedy but leaves the owner at least one character
                 ownerStart == IF Least(nonSpace) < q THEN Least(nonSpace) ELSE q - 1
                 ats == {r \in (q + 1)..n : line[r] = "@"}
             IN  IF ownerStart < a \/ ats = {} THEN NoMatch
                 ELSE LET r == Least(ats)
                          stops == {k \in (r + 1)..(n + 1) :
                                        k = n + 1 \/ line[k] \in RegexSpace}
                          refEnd == Least(stops) - 1
                      IN  IF r = q + 1 \/ refEnd < r + 1 THEN NoMatch
                          ELSE [matched |-> TRUE,
                                owner |-> SubSeq(line, ownerStart, q - 1),
                                repo |-> SubSeq(line, q + 1, r - 1),
                                tag |-> SubSeq(line, r + 1, refEnd)]

FindStringSubmatch(line) ==
    LET starts == {p \in 1..Len(line) : MatchAt(line, p).matched}
    IN  IF starts = {} THEN NoMatch ELSE MatchAt(line, Least(starts))

(***************************************************************************)
(* The rewrite (src/main.go 567, 620-635).                                 *)
(***************************************************************************)
\* time.Now().Format("2006-01-02") on the day of a run, and on the day after
Today == <<"2", "0", "2", "6", "-", "1", "1", "-", "0", "5">>
Tomorrow == <<"2", "0", "2", "6", "-", "1", "1", "-", "0", "6">>

\* key := fmt.Sprintf("%s/%s@%s", owner, repo, tag)
KeyOf(owner, repo, tag) == owner \o <<"/">> \o repo \o <<"@">> \o tag

\* lines 621-626
versionTag(tag, today) ==
    IF tag = Master THEN <<"#">> \o Master \o <<"-">> \o today
    ELSE <<"#">> \o tag

\* mutant: only the leading spaces are kept
RECURSIVE leadingWhitespaceSpacesOnly(_)
leadingWhitespaceSpacesOnly(line) ==
    IF line # <<>> /\ Head(line) = " "
    THEN <<Head(line)>> \o leadingWhitespaceSpacesOnly(Tail(line))
    ELSE <<>>

\* lines 627-634: the leading run of spaces and tabs
RECURSIVE leadingWhitespace(_)
leadingWhitespace(line) ==
    IF line # <<>> /\ Head(line) \in {" ", "\t"}
    THEN <<Head(line)>> \o leadingWhitespace(Tail(line))
    ELSE <<>>

\* line 635
RewrittenLine(line, owner, repo, commitSha, tag, today) ==
    leadingWhitespace(line) \o Uses \o <<" ">> \o owner \o <<"/">> \o repo
        \o <<"@">> \o commitSha \o <<" ">> \o versionTag(tag, today)

(***************************************************************************)
(* Config (src/main.go 357-360) and isAllowedOrg (530-537).                *)
(***************************************************************************)
\* the value of `var config Config` before loadConfig
ZeroConfig == [AllowedOrgs |-> <<>>, AcceptedMapping |-> <<>>]

\* mutant: the owner compared with == instead of strings.EqualFold
isAllowedOrgExact(cfg, owner) ==
    \E i \in 1..Len(cfg.AllowedOrgs) : owner = cfg.AllowedOrgs[i]

\* mutant: the check finds no owner in the list
isAllowedOrgNever(cfg, owner) == FALSE

isAllowedOrg(cfg, owner) ==
    \E i \in 1..Len(cfg.AllowedOrgs) : EqualFold(owner, cfg.AllowedOrgs[i])

\* config.AcceptedMapping[key] = commitSha
\* mutant: the assignment replaces the map by one that holds the key alone
PutMappingAlone(m, key, commitSha) == (key :> commitSha)

PutMapping(m, key, commitSha) ==
    [k \in DOMAIN m \cup {key} |-> IF k = key THEN commitSha ELSE m[k]]

(***************************************************************************)
(* The switch on the answer (src/main.go 593-617) and the cache lookup     *)
(* (571).                                                                  *)
(***************************************************************************)
\* answer = strings.TrimSpace(strings.ToLower(answer))
NormalizeAnswer(input) == TrimSpace(ToLower(input))

\* mutant: case "n" falls out of the switch like case "y"
SwitchDeclineRewrites(cfg, key, owner, commitSha, answer) ==
    IF answer = <<"y">>
    THEN [cfg |-> [cfg EXCEPT !.AcceptedMapping = PutMapping(@, key, commitSha)],
          commitSha |-> commitSha, rewrite |-> TRUE, quit |-> FALSE]
    ELSE IF answer = <<"a">>
    THEN [cfg |-> [cfg EXCEPT !.AllowedOrgs = Append(@, owner)],
          commitSha |-> commitSha, rewrite |-> FALSE, quit |-> FALSE]
    ELSE [cfg |-> cfg, commitSha |-> commitSha, rewrite |-> answer = <<"n">>,
          quit |-> answer = <<"q">>]

\* mutant: case "a" continues without appending the owner
SwitchAllowNoAppend(cfg, key, owner, commitSha, answer) ==
    IF answer = <<"y">>
    THEN [cfg |-> [cfg EXCEPT !.AcceptedMapping = PutMapping(@, key, commitSha)],
          commitSha |-> commitSha, rewrite |-> TRUE, quit |-> FALSE]
    ELSE [cfg |-> cfg, commitSha |-> commitSha, rewrite |-> FALSE,
          quit |-> answer = <<"q">>]

\* mutant: an answer that only starts with y is taken as "y"
SwitchInvalidAccepts(cfg, key, owner, commitSha, answer) ==
    IF answer # <<>> /\ Head(answer) = "y"
    THEN [cfg |-> [cfg EXCEPT !.AcceptedMapping = PutMapping(@, key, commitSha)],
          commitSha |-> commitSha, rewrite |-> TRUE, quit |-> FALSE]
    ELSE IF answer = <<"a">>
    THEN [cfg |-> [cfg EXCEPT !.AllowedOrgs = Append(@, owner)],
          commitSha |-> commitSha, rewrite |-> FALSE, quit |-> FALSE]
    ELSE [cfg |-> cfg, commitSha |-> commitSha, rewrite |-> FALSE,
          quit |-> answer = <<"q">>]

\* what the switch does to config and commitSha, whether control reaches the
\* rewrite at 620-636 (only case "y" falls out of the switch) and whether the
\* run quits
Switch(cfg, key, owner, commitSha, answer) ==
    IF answer = <<"y">>
    THEN [cfg |-> [cfg EXCEPT !.AcceptedMapping = PutMapping(@, key, commitSha)],
          commitSha |-> PutMapping(cfg.AcceptedMapping, key, commitSha)[key],
          rewrite |-> TRUE, quit |-> FALSE]
    ELSE IF answer = <<"n">>
    THEN [cfg |-> cfg, commitSha |-> commitSha, rewrite |-> FALSE, quit |-> FALSE]
    ELSE IF answer = <<"a">>
    THEN [cfg |-> [cfg EXCEPT !.AllowedOrgs = Append(@, owner)],
          commitSha |-> commitSha, rewrite |-> FALSE, quit |-> FALSE]
    ELSE IF answer = <<"q">>
    THEN [cfg |-> cfg, commitSha |-> commitSha, rewrite |-> FALSE, quit |-> TRUE]
    ELSE [cfg |-> cfg, commitSha |-> commitSha, rewrite |-> FALSE, quit |-> FALSE]

\* mutant: the lookup never finds the key
CacheLookupMiss(cfg, key) == [ok |-> FALSE, sha |-> <<>>]

\* commitSha, ok = config.AcceptedMapping[key]
CacheLookup(cfg, key) ==
    IF key \in DOMAIN cfg.AcceptedMapping
    THEN [ok |-> TRUE, sha |-> cfg.AcceptedMapping[key]]
    ELSE [ok |-> FALSE, sha |-> <<>>]

\* line 563: skip if owner is allowed or tag is already a commit hash
SkipReference(cfg, owner, tag) == isAllowedOrg(cfg, owner) \/ IsCommitHash(tag)

(***************************************************************************)
(* The world of the modelled runs: owners, repositories, workflow lines,   *)
(* workflow files, configuration files and terminal input.                 *)
(***************************************************************************)
Ac == <<"a", "c">>
AcCap == <<"A", "c">>
AcUpper == <<"A", "C">>
Ev == <<"e", "v">>
R1 == <<"r", "1">>
V2 == <<"v", "2">>
V9 == <<"v", "9">>
V200 == <<"v", "2", ".", "0", ".", "0">>
V210 == <<"v", "2", ".", "1", ".", "0">>
V209 == <<"v", "2", ".", "0", ".", "9">>

Ref(owner, repo, tag) == owner \o <<"/">> \o repo \o <<"@">> \o tag

LineText == <<"n", "a", "m", "e", ":", " ", "x">>
LineAcV2 == <<" ", " ", "-", " ">> \o Uses \o <<" ">> \o Ref(Ac, R1, V2)
LineAcCapV2 == <<"\t">> \o Uses \o <<" ">> \o Ref(AcCap, R1, V2) \o <<" ", "#", "k">>
LineEvMaster == Uses \o <<" ">> \o Ref(Ev, R1, Master)
LineEvMain == <<" ", " ">> \o Uses \o <<" ">> \o Ref(Ev, R1, Main)
\* the pinned reference of the release workflow (src/unnamed/part_000 52)
ReleaseActionSha ==
    << "4", "4", "0", "c", "8", "c", "1", "c", "b", "0",
       "e", "d", "2", "8", "b", "9", "f", "4", "3", "e",
       "4", "d", "1", "d", "6", "7", "0", "8", "7", "0",
       "f", "0", "5", "9", "6", "5", "3", "1", "7", "4" >>
LinePinned ==
    <<" ", " ">> \o Uses \o <<" ">> \o Ref(Ev, R1, ReleaseActionSha)
        \o <<" ", "#", "v", "1">>
LineEvV9 == Uses \o Ref(Ev, R1, V9)

\* the workflow files, in the order the walk can meet them
FileList ==
    << <<LineText, LineAcV2, LineEvMaster>>,
       <<LineAcCapV2, LineAcV2>>,
       <<LinePinned, LineEvMain, LineEvV9>>,
       <<LineEvMaster, LineAcCapV2>> >>

\* the directory that holds NumFiles files, starting with file `first`
Directory(first) ==
    [k \in 1..NumFiles |-> FileList[((first + k - 2) % Len(FileList)) + 1]]

\* ac/r1: three version tags and a master branch
RemoteAcR1 ==
    [tags |-> << [name |-> V200, sha |-> Sha("a")],
                 [name |-> V210, sha |-> Sha("b")],
                 [name |-> V209, sha |-> Sha("c")] >>,
     heads |-> (Master :> [type |-> "commit", sha |-> Sha("d")]),
     tagrefs |-> <<>>,
     tagobjs |-> <<>>]

\* ev/r1: no tags; master answers with an object of type tag that leads over
\* a second tag object to a commit; main answers with a commit
RemoteEvR1 ==
    [tags |-> <<>>,
     heads |-> (Master :> [type |-> "tag", sha |-> Sha("e")])
                @@ (Main :> [type |-> "commit", sha |-> Sha("2")]),
     tagrefs |-> <<>>,
     tagobjs |-> (Sha("e") :> [type |-> "tag", sha |-> Sha("f")])
                  @@ (Sha("f") :> [type |-> "commit", sha |-> Sha("1")])]

\* the service addresses a repository by owner/repo, owner in any letter case
RemoteOf(owner, repo) ==
    IF ToLower(owner) = Ac THEN RemoteAcR1 ELSE RemoteEvR1

EmptyConfig == [AllowedOrgs |-> <<>>, AcceptedMapping |-> <<>>]

\* the configuration files a run can start from
StoredConfigs ==
    { EmptyConfig,
      [AllowedOrgs |-> <<AcUpper>>,
       AcceptedMapping |-> (KeyOf(Ac, R1, V2) :> Sha("7"))],
      [AllowedOrgs |-> <<>>,
       AcceptedMapping |-> (KeyOf(Ac, R1, V2) :> Sha("7"))
                            @@ (KeyOf(Ev, R1, ReleaseActionSha) :> Sha("8"))] }

\* what can be typed at the first-run prompt
FirstRunInputs == { <<"\n">>, <<"A", "C", ",", " ", "e", "v", "\n">> }

\* what can be typed at the decision prompt
AnswerInputs ==
    { <<"y", "\n">>, <<" ", "Y", "\n">>, <<"n", "\n">>, <<"a", "\n">>,
      <<"q", "\n">>, <<"y", "e", "s", "\n">> }

(***************************************************************************)
(* State.                                                                  *)
(***************************************************************************)
VARIABLES
    pc,        \* position of the main flow: load, walk, line, prompt,
               \* abortexit (before os.Exit of (q)), return (before main
               \* returns), done (the process has ended)
    exitBy,    \* how the process ended: loadfail, normal, abort, signal, fatal
    config,    \* var config Config
    cfgDisk,   \* the configuration file: [exists, cfg]
    files,     \* the workflow files on disk, each a sequence of lines
    fi,        \* index of the file the walk is at
    lines,     \* processFile: the lines of the file being processed
    li,        \* processFile: index of the line being processed
    changed,   \* processFile: changed
    cur,       \* processFile: owner, repo, tag, key, commitSha at the prompt
    lpc,       \* position of the signal goroutine: off, wait, got, encode,
               \* write, exit
    ldata,     \* what the signal goroutine has read of config to marshal it
    ev,        \* observation of the line processed last in the open file
    saves,     \* observation: the calls of saveConfig, with what they marshalled
    accepted,  \* observation: the (key, commitSha) pairs accepted in this run
    allowed,   \* observation: the owners added with (a) in this run
    run,       \* the run of the tool: its number, its day, and observations
    call,      \* function-level specification: the call
    ret,       \* function-level specification: what the call returned
    loop       \* function-level specification: the locals of the first
               \* revision's getCommitSha while its loop runs

runVars == <<pc, exitBy, config, cfgDisk, files, fi, lines, li, changed, cur,
             lpc, ldata, ev, saves, accepted, allowed, run>>
fnVars == <<call, ret, loop>>
vars == <<pc, exitBy, config, cfgDisk, files, fi, lines, li, changed, cur,
          lpc, ldata, ev, saves, accepted, allowed, run, call, ret, loop>>

NoCur == [owner |-> <<>>, repo |-> <<>>, tag |-> <<>>, key |-> <<>>,
          commitSha |-> <<>>]

NoEv == [stage |-> "none", f |-> 0, i |-> 0, matched |-> FALSE,
         owner |-> <<>>, repo |-> <<>>, tag |-> <<>>,
         resolved |-> 0, failAt |-> 0, result |-> <<>>, notes |-> 0,
         prompted |-> 0, answered |-> FALSE, input |-> <<>>,
         lineBefore |-> <<>>, lineAfter |-> <<>>,
         cfgBefore |-> ZeroConfig, cfgAfter |-> ZeroConfig,
         allowedBefore |-> {}]

\* run number n of the tool, started on the day `today` with the workflow
\* files `before`; prompted: a decision prompt was shown in this run; clean:
\* so far every file was read, no request failed, every prompt was answered
\* with accept and every write succeeded; prevClean: the run before
\* this one was clean and completed the walk; rewrote: the files of which
\* this run has replaced a line in memory; written: the files this run has
\* called WriteFile for, in the order of the calls; history: the values
\* config has held in memory since loadConfig returned, in order; pending:
\* the lines (file, line) accepted in the run before and left unwritten by it
NewRun(n, today, before, prevClean) ==
    [n |-> n, today |-> today, before |-> before, prompted |-> FALSE,
     clean |-> TRUE, prevClean |-> prevClean, rewrote |-> {}, written |-> <<>>,
     history |-> <<>>, pending |-> {}]

NoCall == [fn |-> "none"]
NoRet == [returned |-> FALSE]
\* stage: idle (not called), loop (at the loop condition, 133), after (left
\* the loop by a break), exit (returned); commitSha, type (ref.Object.Type)
\* and weirdMapping are the locals; calls counts the requests made, iters the
\* iterations completed; from, targetType and refetch describe the last
\* iteration: the identifier whose tag object it fetched, the type that
\* object gives for its target, and the status of the re-fetch (143)
NoLoop == [stage |-> "idle", commitSha |-> <<>>, type |-> "none",
           weirdMapping |-> FALSE, calls |-> 0, iters |-> 0,
           from |-> <<>>, targetType |-> "none", refetch |-> 0]

Init ==
    /\ pc = "load"
    /\ exitBy = "none"
    /\ config = ZeroConfig
    /\ cfgDisk \in {[exists |-> FALSE, cfg |-> ZeroConfig]}
                     \cup {[exists |-> TRUE, cfg |-> c] : c \in StoredConfigs}
    /\ files \in {Directory(first) : first \in 1..Len(FileList)}
    /\ fi = 0
    /\ lines = <<>>
    /\ li = 0
    /\ changed = FALSE
    /\ cur = NoCur
    /\ lpc = "off"
    /\ ldata = ZeroConfig
    /\ ev = NoEv
    /\ saves = <<>>
    /\ accepted = {}
    /\ allowed = {}
    /\ run = NewRun(1, Today, files, FALSE)
    /\ call = NoCall
    /\ ret = NoRet
    /\ loop = NoLoop

(***************************************************************************)
(* saveConfig (src/main.go 392-398): marshal config, write the file.  A    *)
(* failed write leaves the file as it was.                                 *)
(***************************************************************************)
WriteConfig(disk, cfg, writeOk) ==
    IF writeOk THEN [exists |-> TRUE, cfg |-> cfg] ELSE disk

SaveRecord(by, cfg, writeOk) == [by |-> by, cfg |-> cfg, ok |-> writeOk]

\* the file and the log of saves after saveConfig() called by `by` has
\* marshalled cfg
saveConfig(by, cfg, disk, log, writeOk) ==
    [disk |-> WriteConfig(disk, cfg, writeOk),
     log |-> Append(log, SaveRecord(by, cfg, writeOk))]

\* lines 373-377: the comma-separated list typed on the first run
FirstRunOrgs(input) ==
    LET orgs == Split(TrimSpace(input), ",")
    IN  [i \in 1..Len(orgs) |-> TrimSpace(orgs[i])]

(***************************************************************************)
(* main (src/main.go 649-693) up to the walk: loadConfig (366-389), then   *)
(* the signal goroutine is started.  A configuration file that cannot be   *)
(* read or written ends the run.                                           *)
(***************************************************************************)
LoadConfig ==
    /\ pc = "load"
    /\ \E readOk \in BOOLEAN, writeOk \in BOOLEAN, input \in FirstRunInputs :
        LET firstRun == ~cfgDisk.exists
            newCfg == IF firstRun
                      THEN [AllowedOrgs |-> FirstRunOrgs(input),
                            AcceptedMapping |-> <<>>]
                      ELSE IF readOk THEN cfgDisk.cfg ELSE config
            err == IF firstRun THEN ~writeOk ELSE ~readOk
        IN  /\ config' = newCfg
            /\ cfgDisk' = IF firstRun
                          THEN saveConfig("load", newCfg, cfgDisk, saves, writeOk).disk
                          ELSE cfgDisk
            /\ saves' = IF firstRun
                        THEN saveConfig("load", newCfg, cfgDisk, saves, writeOk).log
                        ELSE saves
            /\ pc' = IF err THEN "done" ELSE "walk"
            /\ exitBy' = IF err THEN "loadfail" ELSE "none"
            /\ lpc' = IF err THEN "off" ELSE "wait"
            /\ fi' = 1
            /\ run' = [run EXCEPT !.history = <<newCfg>>]
    /\ UNCHANGED <<files, lines, li, changed, cur, ldata, ev, accepted, allowed>>
    /\ UNCHANGED fnVars

(***************************************************************************)
(* filepath.Walk (674-687) calling processFile (544-553): read the file.   *)
(* A file that cannot be read is logged and the walk goes on.              *)
(***************************************************************************)
OpenFile ==
    /\ pc = "walk"
    /\ fi <= NumFiles
    /\ \E readOk \in BOOLEAN :
        /\ run' = [run EXCEPT !.clean = @ /\ readOk]
        /\ IF readOk
           THEN /\ lines' = files[fi]
                /\ li' = 1
                /\ changed' = FALSE
                /\ pc' = "line"
                /\ fi' = fi
           ELSE /\ fi' = fi + 1
                /\ UNCHANGED <<lines, li, changed, pc>>
    /\ UNCHANGED <<exitBy, config, cfgDisk, files, cur, lpc, ldata, ev, saves,
                   accepted, allowed>>
    /\ UNCHANGED fnVars

(***************************************************************************)
(* processFile, one iteration of the loop over the lines (555-637) up to   *)
(* the prompt: no reference, skipped reference, cache hit with rewrite,    *)
(* failed resolution, or resolution and prompt.                            *)
(***************************************************************************)
ProcessLine ==
    /\ pc = "line"
    /\ li <= Len(lines)
    /\ \E failAt \in 0..1 :
        LET line == lines[li]
            m == FindStringSubmatch(line)
            skip == m.matched /\ SkipReference(config, m.owner, m.tag)
            key == KeyOf(m.owner, m.repo, m.tag)
            hit == CacheLookup(config, key)
            resolving == m.matched /\ ~skip /\ ~hit.ok
            rewrite == m.matched /\ ~skip /\ hit.ok
        IN  \E r \in IF resolving
                     THEN getCommitSha(RemoteOf(m.owner, m.repo), m.tag, failAt)
                     ELSE {Failure} :
              LET toPrompt == resolving /\ r.ok
                  newLine == IF rewrite
                             THEN RewrittenLine(line, m.owner, m.repo, hit.sha, m.tag,
                                                run.today)
                             ELSE line
              IN  /\ lines' = [lines EXCEPT ![li] = newLine]
                  /\ changed' = (changed \/ rewrite)
                  /\ pc' = IF toPrompt THEN "prompt" ELSE "line"
                  /\ li' = IF toPrompt THEN li ELSE li + 1
                  /\ cur' = IF toPrompt
                            THEN [owner |-> m.owner, repo |-> m.repo, tag |-> m.tag,
                                  key |-> key, commitSha |-> r.sha]
                            ELSE NoCur
                  /\ ev' = [stage |-> IF toPrompt THEN "prompt" ELSE "done",
                            f |-> fi, i |-> li, matched |-> m.matched,
                            owner |-> m.owner, repo |-> m.repo, tag |-> m.tag,
                            resolved |-> IF resolving THEN 1 ELSE 0,
                            failAt |-> IF resolving THEN failAt ELSE 0,
                            result |-> IF resolving THEN r.sha ELSE <<>>,
                            notes |-> IF resolving THEN r.notes ELSE 0,
                            prompted |-> IF toPrompt THEN 1 ELSE 0,
                            answered |-> FALSE, input |-> <<>>,
                            lineBefore |-> line, lineAfter |-> newLine,
                            cfgBefore |-> config, cfgAfter |-> config,
                            allowedBefore |-> allowed]
                  /\ run' = [run EXCEPT !.prompted = @ \/ toPrompt,
                                        !.clean = @ /\ ~(resolving /\ failAt # 0),
                                        !.rewrote = IF rewrite THEN @ \cup {fi}
                                                    ELSE @]
    /\ UNCHANGED <<exitBy, config, cfgDisk, files, fi, lpc, ldata, saves,
                   accepted, allowed>>
    /\ UNCHANGED fnVars

(***************************************************************************)
(* processFile, from the answer to the end of the iteration (593-637):     *)
(* (q) saves the configuration (610) and goes on to os.Exit (613).         *)
(***************************************************************************)
Answer ==
    /\ pc = "prompt"
    /\ \E input \in AnswerInputs, writeOk \in BOOLEAN :
        LET answer == NormalizeAnswer(input)
            sw == Switch(config, cur.key, cur.owner, cur.commitSha, answer)
            line == lines[li]
            newLine == IF sw.rewrite
                       THEN RewrittenLine(line, cur.owner, cur.repo, sw.commitSha,
                                          cur.tag, run.today)
                       ELSE line
        IN  /\ config' = sw.cfg
            /\ lines' = [lines EXCEPT ![li] = newLine]
            /\ changed' = (changed \/ sw.rewrite)
            /\ IF sw.quit
               THEN /\ cfgDisk' = saveConfig("abort", sw.cfg, cfgDisk, saves, writeOk).disk
                    /\ saves' = saveConfig("abort", sw.cfg, cfgDisk, saves, writeOk).log
                    /\ pc' = "abortexit"
                    /\ li' = li
               ELSE /\ pc' = "line"
                    /\ li' = li + 1
                    /\ UNCHANGED <<cfgDisk, saves>>
            /\ accepted' = IF answer = <<"y">>
                           THEN accepted \cup {[key |-> cur.key, sha |-> cur.commitSha]}
                           ELSE accepted
            /\ allowed' = IF answer = <<"a">> THEN allowed \cup {cur.owner}
                          ELSE allowed
            /\ ev' = [ev EXCEPT !.stage = "done", !.answered = TRUE,
                                !.input = input, !.lineAfter = newLine,
                                !.cfgAfter = sw.cfg]
            /\ run' = [run EXCEPT !.clean = @ /\ answer = <<"y">>,
                                  !.rewrote = IF sw.rewrite THEN @ \cup {fi} ELSE @,
                                  !.history = IF sw.cfg # config
                                              THEN Append(@, sw.cfg) ELSE @]
    /\ cur' = NoCur
    /\ UNCHANGED <<exitBy, files, fi, lpc, ldata>>
    /\ UNCHANGED fnVars

(***************************************************************************)
(* processFile after the loop (638-646): a changed file is written back.   *)
(* A failed write is logged by main and the walk goes on.                  *)
(***************************************************************************)
\* mutant: the file is written whether or not a line was changed
writeBackAlways(disk, log, f, newLines, isChanged, writeOk) ==
    [disk |-> IF writeOk THEN [disk EXCEPT ![f] = newLines] ELSE disk,
     log |-> Append(log, f)]

\* lines 638-643: if changed, WriteFile(filePath, strings.Join(lines, "\n"));
\* a failed write leaves the file as it was
writeBack(disk, log, f, newLines, isChanged, writeOk) ==
    IF isChanged
    THEN [disk |-> IF writeOk THEN [disk EXCEPT ![f] = newLines] ELSE disk,
          log |-> Append(log, f)]
    ELSE [disk |-> disk, log |-> log]

EndFile ==
    /\ pc = "line"
    /\ li > Len(lines)
    /\ \E writeOk \in BOOLEAN :
        LET w == writeBack(files, run.written, fi, lines, changed, writeOk)
        IN  /\ files' = w.disk
            /\ run' = [run EXCEPT !.clean = @ /\ (changed => writeOk),
                                  !.written = w.log]
    /\ fi' = fi + 1
    /\ pc' = "walk"
    /\ lines' = <<>>
    /\ li' = 0
    /\ changed' = FALSE
    /\ ev' = NoEv
    /\ UNCHANGED <<exitBy, config, cfgDisk, cur, lpc, ldata, saves,
                   accepted, allowed>>
    /\ UNCHANGED fnVars

(***************************************************************************)
(* main after the walk (691-693): the final saveConfig.                    *)
(***************************************************************************)
FinalSave ==
    /\ pc = "walk"
    /\ fi > NumFiles
    /\ \E writeOk \in BOOLEAN :
        /\ cfgDisk' = saveConfig("final", config, cfgDisk, saves, writeOk).disk
        /\ saves' = saveConfig("final", config, cfgDisk, saves, writeOk).log
        /\ run' = [run EXCEPT !.clean = @ /\ writeOk]
    /\ pc' = "return"
    /\ UNCHANGED <<exitBy, config, files, fi, lines, li, changed, cur, lpc, ldata,
                   ev, accepted, allowed>>
    /\ UNCHANGED fnVars

(***************************************************************************)
(* The process ends from the main flow: os.Exit(0) after the save of (q)   *)
(* (613), or main returns after the final save (694).  The signal          *)
(* goroutine can still run between the save and this step.                 *)
(***************************************************************************)
MainExit ==
    /\ pc \in {"abortexit", "return"}
    /\ pc' = "done"
    /\ exitBy' = IF pc = "abortexit" THEN "abort" ELSE "normal"
    /\ UNCHANGED <<config, cfgDisk, files, fi, lines, li, changed, cur, lpc, ldata,
                   ev, saves, accepted, allowed, run>>
    /\ UNCHANGED fnVars

(***************************************************************************)
(* The signal goroutine (665-672): receive the signal, saveConfig (marshal *)
(* config, write the file), os.Exit(0).  It runs concurrently with the     *)
(* main flow, without synchronisation, and stops with the process.         *)
(* json.MarshalIndent(config, ...) (393) is passed the struct by value:    *)
(* the call copies the slice header of AllowedOrgs and the reference to    *)
(* the map AcceptedMapping; the entries of the map are read afterwards,    *)
(* when the encoder iterates over it.                                      *)
(***************************************************************************)
Signal ==
    /\ lpc = "wait"
    /\ pc # "done"
    /\ lpc' = "got"
    /\ UNCHANGED <<pc, exitBy, config, cfgDisk, files, fi, lines, li, changed,
                   cur, ldata, ev, saves, accepted, allowed, run>>
    /\ UNCHANGED fnVars

ListenerCopy ==
    /\ lpc = "got"
    /\ pc # "done"
    /\ ldata' = [ldata EXCEPT !.AllowedOrgs = config.AllowedOrgs]
    /\ lpc' = "encode"
    /\ UNCHANGED <<pc, exitBy, config, cfgDisk, files, fi, lines, li, changed,
                   cur, ev, saves, accepted, allowed, run>>
    /\ UNCHANGED fnVars

ListenerMarshal ==
    /\ lpc = "encode"
    /\ pc # "done"
    /\ ldata' = [ldata EXCEPT !.AcceptedMapping = config.AcceptedMapping]
    /\ lpc' = "write"
    /\ UNCHANGED <<pc, exitBy, config, cfgDisk, files, fi, lines, li, changed,
                   cur, ev, saves, accepted, allowed, run>>
    /\ UNCHANGED fnVars

ListenerWrite ==
    /\ lpc = "write"
    /\ pc # "done"
    /\ \E writeOk \in BOOLEAN :
        /\ cfgDisk' = saveConfig("signal", ldata, cfgDisk, saves, writeOk).disk
        /\ saves' = saveConfig("signal", ldata, cfgDisk, saves, writeOk).log
    /\ lpc' = "exit"
    /\ UNCHANGED <<pc, exitBy, config, files, fi, lines, li, changed, cur,
                   ldata, ev, accepted, allowed, run>>
    /\ UNCHANGED fnVars

ListenerExit ==
    /\ lpc = "exit"
    /\ pc # "done"
    /\ pc' = "done"
    /\ exitBy' = "signal"
    /\ lpc' = "off"
    /\ UNCHANGED <<config, cfgDisk, files, fi, lines, li, changed, cur, ldata,
                   ev, saves, accepted, allowed, run>>
    /\ UNCHANGED fnVars

(***************************************************************************)
(* The assignment config.AcceptedMapping[key] = commitSha (598) while the  *)
(* signal goroutine iterates over the same map (393): the accesses are not *)
(* synchronised, and the Go runtime, when it detects the write during the  *)
(* iteration, ends the process with "fatal error: concurrent map iteration *)
(* and map write".  The decision is not completed and nothing is saved.    *)
(***************************************************************************)
ConcurrentMapFault ==
    /\ pc = "prompt"
    /\ lpc = "encode"
    /\ \E input \in AnswerInputs :
         /\ NormalizeAnswer(input) = <<"y">>
         /\ ev' = [ev EXCEPT !.stage = "fatal", !.input = input]
    /\ pc' = "done"
    /\ exitBy' = "fatal"
    /\ UNCHANGED <<config, cfgDisk, files, fi, lines, li, changed, cur, lpc, ldata,
                   saves, accepted, allowed, run>>
    /\ UNCHANGED fnVars

Next ==
    \/ LoadConfig
    \/ OpenFile
    \/ ProcessLine
    \/ Answer
    \/ EndFile
    \/ FinalSave
    \/ MainExit
    \/ ConcurrentMapFault
    \/ Signal
    \/ ListenerCopy
    \/ ListenerMarshal
    \/ ListenerWrite
    \/ ListenerExit

Spec == Init /\ [][Next]_vars

(***************************************************************************)
(* The tool run a second time, the same day or the day after, on the files *)
(* and the configuration file left by a first run that completed its walk  *)
(* with every file read, every request answered, every prompt answered     *)
(* with accept and every changed file written; or run a second time on     *)
(* what a first run left that was aborted in its first file after an       *)
(* accepted line of it, the configuration saved: main starts again from    *)
(* its beginning (src/main.go 649-656).                                    *)
(***************************************************************************)
\* the key of the reference the line holds
LineKey(line) ==
    KeyOf(FindStringSubmatch(line).owner, FindStringSubmatch(line).repo,
          FindStringSubmatch(line).tag)

\* the lines of the file being processed that are rewritten in memory and not
\* in the file, after an accept answer of this run
PendingLines ==
    IF fi \in 1..Len(files) /\ Len(lines) = Len(files[fi])
    THEN {k \in 1..Len(lines) :
            /\ lines[k] # files[fi][k]
            /\ FindStringSubmatch(files[fi][k]).matched
            /\ \E a \in accepted : a.key = LineKey(files[fi][k])}
    ELSE {}

StartSecondRun ==
    /\ pc = "done"
    /\ run.n = 1
    /\ \/ exitBy = "normal" /\ run.clean
       \/ /\ exitBy = "abort"
          /\ fi = 1
          /\ PendingLines # {}
          /\ cfgDisk = [exists |-> TRUE, cfg |-> config]
    /\ \E day \in IF exitBy = "normal" THEN {Today, Tomorrow} ELSE {Today} :
         run' = [NewRun(2, day, files, run.clean /\ exitBy = "normal")
                   EXCEPT !.pending = {<<fi, k>> : k \in PendingLines}]
    /\ pc' = "load"
    /\ exitBy' = "none"
    /\ config' = ZeroConfig
    /\ fi' = 0
    /\ lines' = <<>>
    /\ li' = 0
    /\ changed' = FALSE
    /\ cur' = NoCur
    /\ lpc' = "off"
    /\ ldata' = ZeroConfig
    /\ ev' = NoEv
    /\ saves' = <<>>
    /\ accepted' = {}
    /\ allowed' = {}
    /\ UNCHANGED <<cfgDisk, files>>
    /\ UNCHANGED fnVars

NextTwice ==
    \/ LoadConfig
    \/ OpenFile
    \/ ProcessLine
    \/ Answer
    \/ EndFile
    \/ FinalSave
    \/ MainExit
    \/ ConcurrentMapFault
    \/ Signal
    \/ ListenerCopy
    \/ ListenerMarshal
    \/ ListenerWrite
    \/ ListenerExit
    \/ StartSecondRun

SpecTwice == Init /\ [][NextTwice]_vars

(***************************************************************************)
(* Properties of the run.                                                  *)
(***************************************************************************)
\* the answers of AnswerInputs by what the user means with them
AcceptTyped == { <<"y", "\n">>, <<" ", "Y", "\n">> }
DeclineTyped == { <<"n", "\n">> }
AllowTyped == { <<"a", "\n">> }
AbortTyped == { <<"q", "\n">> }
InvalidTyped == { <<"y", "e", "s", "\n">> }

\* ref is exactly 40 lowercase hexadecimal characters
FortyLowerHex(tag) ==
    /\ Len(tag) = 40
    /\ \A i \in 1..Len(tag) :
         tag[i] \in {"0", "1", "2", "3", "4", "5", "6", "7", "8", "9",
                     "a", "b", "c", "d", "e", "f"}

\* name starts with the literal prefix
StartsWith(name, prefix) ==
    /\ Len(prefix) <= Len(name)
    /\ \A k \in 1..Len(prefix) : name[k] = prefix[k]

\* two owners that are equal ignoring letter case
SameOwner(a, b) == ToLower(a) = ToLower(b)

AllowListed(cfg, owner) ==
    \E j \in 1..Len(cfg.AllowedOrgs) : SameOwner(owner, cfg.AllowedOrgs[j])

EvKey == ev.owner \o <<"/">> \o ev.repo \o <<"@">> \o ev.tag
EvReached == ev.stage # "none" /\ ev.matched
EvCached == EvKey \in DOMAIN ev.cfgBefore.AcceptedMapping
EvRewritten == ev.lineAfter # ev.lineBefore
EvUntouched ==
    /\ ev.resolved = 0
    /\ ev.prompted = 0
    /\ ev.lineAfter = ev.lineBefore
\* the observation is of the line the main flow holds
EvIsCurrent ==
    (ev.stage # "none" /\ pc \in {"line", "prompt"})
        => (ev.f = fi /\ lines[ev.i] = ev.lineAfter)

\* C1: a line is rewritten only if its key owner/repo@ref was in the
\* AcceptanceCache when the line was reached or the user answered accept for
\* that key at that line; no rewrite follows decline, allow, abort, invalid
\* input or a resolution failure.  In memory, every line that differs from
\* the file on disk has its key in the AcceptanceCache.
C1_RewriteOnlyOnCacheOrAccept ==
    /\ EvIsCurrent
    /\ EvRewritten => (EvCached \/ (ev.answered /\ ev.input \in AcceptTyped))
    /\ (ev.answered /\ ev.input \notin AcceptTyped) => ~EvRewritten
    /\ (ev.resolved = 1 /\ ev.prompted = 0) => ~EvRewritten
    /\ (ev.stage = "prompt") => ~EvRewritten
    /\ pc \in {"line", "prompt"} =>
         \A k \in 1..Len(lines) :
           lines[k] # files[fi][k] =>
             LET m == FindStringSubmatch(files[fi][k])
             IN  /\ m.matched
                 /\ (m.owner \o <<"/">> \o m.repo \o <<"@">> \o m.tag)
                        \in DOMAIN config.AcceptedMapping

C1_Witness ==
    /\ ev.stage = "done"
    /\ ev.answered
    /\ ev.input \in AcceptTyped
    /\ EvRewritten
    /\ ~EvCached

\* C2: a reference whose ref is exactly 40 lowercase hexadecimal characters
\* is never resolved, prompted for or rewritten, whatever the owner and
\* whatever the AcceptanceCache holds.
C2_PinnedUntouched ==
    (EvReached /\ FortyLowerHex(ev.tag)) => EvUntouched

C2_Witness ==
    /\ ev.stage = "done"
    /\ ev.matched
    /\ FortyLowerHex(ev.tag)
    /\ EvCached
    /\ ~AllowListed(ev.cfgBefore, ev.owner)

\* C3: a reference whose owner equals an AllowList entry ignoring letter case
\* is never resolved, prompted for or rewritten, for any ref and even when its
\* key is in the AcceptanceCache.
C3_AllowListedUntouched ==
    (EvReached /\ AllowListed(ev.cfgBefore, ev.owner)) => EvUntouched

C3_Witness ==
    /\ ev.stage = "done"
    /\ ev.matched
    /\ AllowListed(ev.cfgBefore, ev.owner)
    /\ \A j \in 1..Len(ev.cfgBefore.AllowedOrgs) :
         ev.cfgBefore.AllowedOrgs[j] # ev.owner
    /\ EvCached
    /\ ~FortyLowerHex(ev.tag)

\* C4: for a reference that is neither allow-listed nor pinned and whose key
\* is in the AcceptanceCache, the resolver is not called, nothing is
\* prompted, the AcceptanceCache is unchanged and the line carries exactly the
\* stored commit id; on accept the value stored under the key is the commit
\* id the resolver returned and the line carries that id.
C4_CacheHitAndAccept ==
    /\ (EvReached /\ ~AllowListed(ev.cfgBefore, ev.owner)
          /\ ~FortyLowerHex(ev.tag) /\ EvCached)
         => /\ ev.resolved = 0
            /\ ev.prompted = 0
            /\ ev.cfgAfter = ev.cfgBefore
            /\ EvRewritten
            /\ FindStringSubmatch(ev.lineAfter).tag
                 = ev.cfgBefore.AcceptedMapping[EvKey]
    /\ (ev.answered /\ ev.input \in AcceptTyped)
         => /\ EvKey \in DOMAIN ev.cfgAfter.AcceptedMapping
            /\ ev.cfgAfter.AcceptedMapping[EvKey] = ev.result
            /\ FindStringSubmatch(ev.lineAfter).tag = ev.result
            /\ ev.resolved = 1

\* a cache hit on a key that was accepted earlier in this run
C4_Witness ==
    /\ ev.stage = "done"
    /\ EvReached
    /\ EvCached
    /\ ev.resolved = 0
    /\ EvRewritten
    /\ \E a \in accepted : a.key = EvKey /\ a.sha = ev.cfgBefore.AcceptedMapping[EvKey]

\* C5: an allow answer for owner O leaves the line, the file and the
\* AcceptanceCache as they were and appends O to the AllowList; lines
\* rewritten before stay as they are; every reference reached later in the
\* run whose owner equals O ignoring case is skipped without resolution or
\* prompt.
AllowStep ==
    /\ pc = "prompt"
    /\ ~ev.answered
    /\ ev'.answered
    /\ ev'.input \in AllowTyped

C5_AllowFrame ==
    AllowStep =>
      /\ lines' = lines
      /\ files' = files
      /\ changed' = changed
      /\ config'.AcceptedMapping = config.AcceptedMapping
      /\ config'.AllowedOrgs = Append(config.AllowedOrgs, cur.owner)
      /\ pc' = "line"
      /\ li' = li + 1

C5_LaterSkipped ==
    (EvReached /\ \E o \in ev.allowedBefore : SameOwner(o, ev.owner))
        => EvUntouched

C5_Allow == [](C5_LaterSkipped) /\ [][C5_AllowFrame]_vars

\* a reference of a later file skipped because of an allow answer of this
\* run, given for the owner in another letter case, the line accepted before
\* that answer being rewritten in the file written since
C5_Witness ==
    /\ ev.stage = "done"
    /\ EvReached
    /\ \E o \in ev.allowedBefore : SameOwner(o, ev.owner) /\ o # ev.owner
    /\ ~AllowListed(cfgDisk.cfg, ev.owner)
    /\ ev.f > 1
    /\ files[1][1] = RewrittenLine(LineEvMaster, Ev, R1, Sha("e"), Master, Today)

\* C6: a decline answer, and an answer that is none of the four options,
\* leaves the line, the AllowList and the AcceptanceCache as they were, and
\* processing continues with the next line.
DeclineStep ==
    /\ pc = "prompt"
    /\ ~ev.answered
    /\ ev'.answered
    /\ ev'.input \in DeclineTyped \cup InvalidTyped

C6_DeclineFrame ==
    DeclineStep =>
      /\ lines' = lines
      /\ changed' = changed
      /\ config' = config
      /\ cfgDisk' = cfgDisk
      /\ files' = files
      /\ fi' = fi
      /\ li' = li + 1
      /\ pc' = "line"
      /\ exitBy' = exitBy

C6_Decline == [][C6_DeclineFrame]_vars

C6_Witness ==
    /\ ev.stage = "done"
    /\ ev.answered
    /\ ev.input \in InvalidTyped
    /\ pc = "line"
    /\ li = ev.i + 1
    /\ ev.lineAfter = ev.lineBefore
    /\ ev.cfgAfter = ev.cfgBefore

\* C7: on every exit path after a successful load (the walk completed, an
\* abort answer, a signal) saveConfig has been called by that path before the
\* process ends; the Config the abort saves is the Config in memory and holds
\* every acceptance and every allow-list addition of the run; once the
\* process has ended nothing is processed.
Last(seq) == seq[Len(seq)]

SavedBy(who) == {j \in 1..Len(saves) : saves[j].by = who}

C7_SaveOnEveryExit ==
    pc = "done" =>
      /\ exitBy \in {"loadfail", "normal", "abort", "signal"}
      /\ exitBy = "normal" =>
           \E j \in SavedBy("final") : saves[j].cfg = config
      /\ exitBy = "signal" => SavedBy("signal") # {}
      /\ exitBy = "abort" =>
           \E j \in SavedBy("abort") :
             /\ saves[j].cfg = config
             /\ (saves[j].ok /\ j = Len(saves)) =>
                  cfgDisk = [exists |-> TRUE, cfg |-> config]
             /\ \A a \in accepted :
                  /\ a.key \in DOMAIN saves[j].cfg.AcceptedMapping
                  /\ saves[j].cfg.AcceptedMapping[a.key] = a.sha
             /\ \A o \in allowed :
                  \E k \in 1..Len(saves[j].cfg.AllowedOrgs) :
                    saves[j].cfg.AllowedOrgs[k] = o
      /\ ~ENABLED Next

\* C11: when the resolution of a reference fails (a remote call answers with
\* a non-success status, the branch does not exist, or no tag has the
\* prefix), nothing is prompted, the line, the AllowList and the
\* AcceptanceCache stay as they were, and the run goes on with the next line
\* of the same file: the failure does not end the file or the run.
ResolutionFailed(e) ==
    /\ e.stage # "none"
    /\ e.matched
    /\ e.resolved = 1
    /\ \/ e.failAt # 0
       \/ /\ e.tag \in {Master, Main}
          /\ e.tag \notin DOMAIN RemoteOf(e.owner, e.repo).heads
       \/ /\ e.tag \notin {Master, Main}
          /\ \A k \in 1..Len(RemoteOf(e.owner, e.repo).tags) :
               ~StartsWith(RemoteOf(e.owner, e.repo).tags[k].name, e.tag)

FailStep ==
    /\ pc = "line"
    /\ ev' # ev
    /\ ResolutionFailed(ev')

C11_FailFrame ==
    FailStep =>
      /\ ev'.prompted = 0
      /\ pc' = "line"
      /\ li' = li + 1
      /\ lines' = lines
      /\ changed' = changed
      /\ config' = config
      /\ cfgDisk' = cfgDisk
      /\ files' = files
      /\ fi' = fi
      /\ exitBy' = exitBy

C11_FailureSkipsReference ==
    /\ [](ResolutionFailed(ev) =>
            /\ ev.prompted = 0
            /\ ~ev.answered
            /\ ev.lineAfter = ev.lineBefore
            /\ ev.cfgAfter = ev.cfgBefore)
    /\ [][C11_FailFrame]_vars

\* a reference of the second file whose prefix no tag of the repository has;
\* the run is at the next line
C11_Witness ==
    /\ ResolutionFailed(ev)
    /\ ev.failAt = 0
    /\ ev.tag = V9
    /\ ev.f = 2
    /\ pc = "line"
    /\ li = ev.i + 1

\* C13: a rewritten line is the original line's leading run of spaces and
\* tabs, character for character, followed by
\* `uses: owner/repo@commitSha versionComment`; nothing else of the original
\* line (a list marker before `uses:`, text after the ref) is carried over.
Indentation(line) ==
    LET n == IF \E k \in 1..Len(line) : line[k] \notin {" ", "\t"}
             THEN Least({k \in 1..Len(line) : line[k] \notin {" ", "\t"}}) - 1
             ELSE Len(line)
    IN  SubSeq(line, 1, n)

\* the commit id a rewritten line carries: the cached one, else the resolved one
EvCommit ==
    IF EvCached THEN ev.cfgBefore.AcceptedMapping[EvKey] ELSE ev.result

VersionComments(tag, day) ==
    { <<"#">> \o tag, <<"#">> \o tag \o <<"-">> \o day }

C13_RewrittenLineShape ==
    (EvReached /\ EvRewritten) =>
      \E comment \in VersionComments(ev.tag, run.today) :
        ev.lineAfter = Indentation(ev.lineBefore)
                         \o <<"u", "s", "e", "s", ":", " ">>
                         \o ev.owner \o <<"/">> \o ev.repo \o <<"@">> \o EvCommit
                         \o <<" ">> \o comment

\* the list item `  - uses: ac/r1@v2` rewritten without its marker
C13_Witness ==
    /\ EvReached
    /\ EvRewritten
    /\ ev.lineBefore = LineAcV2
    /\ ev.lineAfter = <<" ", " ">> \o Uses \o <<" ">> \o Ref(Ac, R1, Sha("b"))
                        \o <<" ", "#", "v", "2">>
    /\ files[ev.f][ev.i] = ev.lineBefore

\* C14 as stated: a file is written back if and only if at least one of its
\* lines was rewritten in this run; in a written file every line that was not
\* rewritten is identical to the original and in its position; a file with no
\* rewritten line is never written.
FileWritten(f) == \E j \in 1..Len(run.written) : run.written[j] = f

\* the walk has gone past file f
FileCompleted(f) == f < fi

\* the run is not, or no longer, processing file f
FileLeft(f) == f < fi \/ pc = "done"

\* what the file holds now against what it held when the run started: the
\* same number of lines, and a line that differs is the pinned form of the
\* reference the line held, whose key is in the AcceptanceCache
ContentKept(f) ==
    /\ ~FileWritten(f) => files[f] = run.before[f]
    /\ Len(files[f]) = Len(run.before[f])
    /\ \A k \in 1..Len(files[f]) :
         files[f][k] # run.before[f][k] =>
           LET m == FindStringSubmatch(run.before[f][k])
               n == FindStringSubmatch(files[f][k])
           IN  /\ m.matched
               /\ (m.owner \o <<"/">> \o m.repo \o <<"@">> \o m.tag)
                      \in DOMAIN config.AcceptedMapping
               /\ n.matched
               /\ n.owner = m.owner
               /\ n.repo = m.repo
               /\ FortyLowerHex(n.tag)

C14_WrittenIffRewritten ==
    pc # "load" =>
      \A f \in 1..NumFiles :
        /\ FileWritten(f) => f \in run.rewrote
        /\ (f \in run.rewrote /\ FileLeft(f)) => FileWritten(f)
        /\ ContentKept(f)

\* C14 as amended: a file is written back if and only if the run has
\* processed it to its last line and has rewritten at least one of its
\* lines; a file the run leaves before its last line (abort, interruption)
\* is not written, whatever was rewritten in memory; the rest as stated.
C14_WrittenIffRewrittenAndCompleted ==
    pc # "load" =>
      \A f \in 1..NumFiles :
        /\ FileWritten(f) <=> (f \in run.rewrote /\ FileCompleted(f))
        /\ ContentKept(f)

\* the first file written with its first line as it was, the run aborted in
\* the second file after a line of it was rewritten in memory
C14_Witness ==
    /\ pc = "done"
    /\ exitBy = "abort"
    /\ fi = 2
    /\ 2 \in run.rewrote
    /\ ~FileWritten(2)
    /\ FileWritten(1)
    /\ files[1] # run.before[1]
    /\ files[1][1] = LineText
    /\ files[2] = run.before[2]

\* C15: the trailing comment of a rewritten line is `#<ref>` when ref is a
\* tag or version prefix, and `#<ref>-<date of the run>` when ref is master
\* and also when ref is main, after a fresh accept and on a cache hit alike.
BranchRefs == {Master, Main}

ClaimedComment(tag, day) ==
    IF tag \in BranchRefs THEN <<"#">> \o tag \o <<"-">> \o day
    ELSE <<"#">> \o tag

C15_BranchCommentCarriesDate ==
    (EvReached /\ EvRewritten) =>
      ev.lineAfter = Indentation(ev.lineBefore)
                       \o <<"u", "s", "e", "s", ":", " ">>
                       \o ev.owner \o <<"/">> \o ev.repo \o <<"@">> \o EvCommit
                       \o <<" ">> \o ClaimedComment(ev.tag, run.today)

\* C16: a failure to write the configuration file is only logged: for every
\* save, the one that creates the configuration on the first run included,
\* the failure does not stop the processing of the workflow files and does
\* not roll back the AllowList and the AcceptanceCache in memory.
FailedSaves == {j \in 1..Len(saves) : ~saves[j].ok}

C16_WriteFailureOnlyLogged ==
    /\ \A j \in FailedSaves : saves[j].by = "load" => exitBy # "loadfail"
    /\ (saves # <<>> /\ ~Last(saves).ok) =>
         /\ Last(saves).by \in {"abort", "final"} => config = Last(saves).cfg
         /\ (Last(saves).by = "load" /\ pc \in {"walk", "done"} /\ fi = 1)
              => config = Last(saves).cfg

\* C12: in a second run right after a run in which every proposed change
\* was accepted, the remote unchanged, nothing is prompted; a line of a
\* non-branch ref is not changed; of a line of a branch ref only the date
\* token of the trailing comment changes: once the second run has completed,
\* that token is the date of the second run.
HasDateComment(line, branch) ==
    LET c == <<"#">> \o branch \o <<"-">>
        n == Len(line) - Len(Today) - Len(c)
    IN  n >= 0 /\ SubSeq(line, n + 1, n + Len(c)) = c

\* the line with the date token of its branch comment, if it has one, set to day
WithDate(line, day) ==
    IF \E b \in {Master, Main} : HasDateComment(line, b)
    THEN SubSeq(line, 1, Len(line) - Len(Today)) \o day
    ELSE line

SecondRunAfterAllAccepted == run.n = 2 /\ run.prevClean

C12_SecondRunRefreshesDate ==
    SecondRunAfterAllAccepted =>
      /\ ~run.prompted
      /\ \A f \in 1..Len(files) : \A k \in 1..Len(files[f]) :
           files[f][k] \in {run.before[f][k], WithDate(run.before[f][k], run.today)}
      /\ (pc = "done" /\ exitBy = "normal" /\ run.clean) =>
           \A f \in 1..Len(files) : \A k \in 1..Len(files[f]) :
             files[f][k] = WithDate(run.before[f][k], run.today)

(***************************************************************************)
(* The signal goroutine and the main flow (C17, C18).                      *)
(***************************************************************************)
\* The keys config held when loadConfig returned.
LoadedKeys ==
    IF run.history = <<>> THEN {} ELSE DOMAIN run.history[1].AcceptedMapping

\* The signal goroutine takes a step (Signal .. ListenerExit).
ListenerStep == lpc' # lpc /\ pc \notin {"load", "done"}

\* The main flow changes config by an accept (598) or an allow (605).
MainMutation == config' # config /\ pc \notin {"load", "done"}

\* The signal goroutine is reading config to serialise it: it has copied the
\* struct for json.MarshalIndent and has not yet read the entries of the map.
ListenerReading == lpc = "encode"

\* C17: under every interleaving of the signal goroutine with the main flow,
\* the Config the goroutine persists is the Config in memory as it stood
\* after some prefix of the decisions completed so far: it holds no mapping
\* for a key the user has not accepted (or the loaded configuration held),
\* it never holds a decision without the decisions completed before it, and
\* the goroutine itself never changes the allow-list or the mapping.
C17_ListenerPersistsPrefix ==
    /\ [](\A j \in SavedBy("signal") : saves[j].ok =>
            /\ \E k \in 1..Len(run.history) : saves[j].cfg = run.history[k]
            /\ \A key \in DOMAIN saves[j].cfg.AcceptedMapping :
                 key \in LoadedKeys \/ \E a \in accepted : a.key = key)
    /\ [][ListenerStep => config' = config]_vars

\* C18: the signal goroutine and the main flow touch shared state together
\* only at the write of the configuration file: the main flow performs no
\* accept or allow mutation of config while the goroutine is reading config
\* to serialise it, and when both have written the file (the goroutine's
\* save and the save of the abort or the final save) they wrote the same
\* Config.
C18_NoConcurrentAccess ==
    /\ [][ListenerReading => ~MainMutation]_vars
    /\ [](\A i \in SavedBy("signal") : \A j \in SavedBy("abort") \cup SavedBy("final") :
            saves[i].cfg = saves[j].cfg)

(***************************************************************************)
(* The mapping of accepted references within one run (C20).                *)
(***************************************************************************)
\* a step of the run after loadConfig has filled config
WithinRun == pc # "load"

\* every entry of the mapping m is an entry of the mapping n
EntriesKept(m, n) ==
    \A k \in DOMAIN m : k \in DOMAIN n /\ n[k] = m[k]

\* C20: within one run the mapping of accepted references only grows: no
\* step removes a key or changes the commit id stored under a key that is
\* present; a reference whose key is present is not resolved again (and not
\* prompted for); two references with different keys that were accepted with
\* the same commit id are two entries of the mapping.
C20_CacheOnlyGrows ==
    /\ [][WithinRun =>
            EntriesKept(config.AcceptedMapping, config'.AcceptedMapping)]_vars
    /\ []((EvReached /\ EvCached) =>
            /\ ev.resolved = 0
            /\ ev.prompted = 0
            /\ ev.cfgAfter.AcceptedMapping = ev.cfgBefore.AcceptedMapping)
    /\ [](\A a, b \in accepted :
            (a.key # b.key /\ a.sha = b.sha) =>
              /\ {a.key, b.key} \subseteq DOMAIN config.AcceptedMapping
              /\ config.AcceptedMapping[a.key] = a.sha
              /\ config.AcceptedMapping[b.key] = b.sha)

C20_Witness ==
    /\ \E a, b \in accepted : a.key # b.key /\ a.sha = b.sha
    /\ Cardinality(DOMAIN config.AcceptedMapping) >= 2
    /\ pc = "done"

(***************************************************************************)
(* The list of allowed owners within one run (C21).                        *)
(***************************************************************************)
\* the list s is the beginning of the list t
IsPrefixOf(s, t) == Len(s) <= Len(t) /\ SubSeq(t, 1, Len(s)) = s

\* C21: within one run the list of allowed owners never shrinks (every step
\* keeps its entries, in place); the prompt is shown only for an owner that
\* equals no entry of the list ignoring case, so an allow answer adds
\* exactly one entry, the owner, and that entry is new ignoring case.
C21_AllowListGrowsByNewOwners ==
    /\ [][WithinRun => IsPrefixOf(config.AllowedOrgs, config'.AllowedOrgs)]_vars
    /\ [](pc = "prompt" => ~AllowListed(config, cur.owner))
    /\ [][AllowStep =>
            /\ config'.AllowedOrgs = Append(config.AllowedOrgs, cur.owner)
            /\ \A j \in 1..Len(config.AllowedOrgs) :
                 ~SameOwner(config.AllowedOrgs[j], cur.owner)]_vars

\* an allow answer has added its owner to a list that held another owner
C21_Witness ==
    /\ allowed # {}
    /\ Len(config.AllowedOrgs) >= 2
    /\ config.AllowedOrgs[1] # <<>>
    /\ config.AllowedOrgs[Len(config.AllowedOrgs)] \in allowed

(***************************************************************************)
(* A file left by an abort or an interruption, and the next run (C22).     *)
(***************************************************************************)
\* the run has ended, by an abort answer or by a signal, while file fi was
\* being processed
Abandoned ==
    /\ pc = "done"
    /\ exitBy \in {"abort", "signal"}
    /\ fi \in 1..Len(files)
    /\ lines # <<>>

\* every write of the configuration file has succeeded
SavesSucceeded == \A j \in 1..Len(saves) : saves[j].ok

\* the configuration file holds the acceptance a
Persisted(a) ==
    /\ cfgDisk.exists
    /\ a.key \in DOMAIN cfgDisk.cfg.AcceptedMapping
    /\ cfgDisk.cfg.AcceptedMapping[a.key] = a.sha

\* the acceptances of this run made for lines of the file being processed
PendingAccepts ==
    {a \in accepted : \E k \in PendingLines : a.key = LineKey(files[fi][k])}

\* C22: a workflow file is written at most once per run and only after its
\* last line has been processed; when the run ends by an abort or by an
\* interruption while a file is being processed, that file is unchanged on
\* disk and the acceptances made for its earlier lines are in the persisted
\* configuration (its writes having succeeded); the next run, when it comes
\* to those lines, rewrites them from the cache, without resolving and
\* without a prompt.
C22_AbandonedFileRewrittenNextRun ==
    /\ [](\A i, j \in 1..Len(run.written) :
            run.written[i] = run.written[j] => i = j)
    /\ [][Len(run'.written) > Len(run.written) =>
            /\ pc = "line"
            /\ li > Len(lines)
            /\ run'.written = Append(run.written, fi)]_vars
    /\ []((Abandoned /\ SavesSucceeded) =>
            /\ files[fi] = run.before[fi]
            /\ \A a \in PendingAccepts : Persisted(a))
    /\ []((run.n = 2 /\ EvReached /\ <<ev.f, ev.i>> \in run.pending) =>
            /\ ev.resolved = 0
            /\ ev.prompted = 0
            /\ EvRewritten
            /\ FindStringSubmatch(ev.lineAfter).tag
                  = ev.cfgBefore.AcceptedMapping[EvKey])

(***************************************************************************)
(* Function-level specification: one call of compareVersions or of         *)
(* getCommitSha (either revision) on inputs drawn from bounded sets.       *)
(***************************************************************************)
\* all strings over chars of length at most n
RECURSIVE StringsUpTo(_, _)
StringsUpTo(chars, n) ==
    IF n = 0 THEN {<<>>}
    ELSE LET shorter == StringsUpTo(chars, n - 1)
         IN  shorter \cup {Append(t, c) : t \in shorter, c \in chars}

VerChars == {"0", "1", ".", "a"}

V_2_1_0 == <<"2", ".", "1", ".", "0">>
V_2_0_9 == <<"2", ".", "0", ".", "9">>
V_2_0 == <<"2", ".", "0">>
V_2_0_0 == <<"2", ".", "0", ".", "0">>
V_1_9 == <<"1", ".", "9">>
V_1_10 == <<"1", ".", "1", "0">>

NamedVersions ==
    { V_2_1_0, V_2_0_9, V_2_0, V_2_0_0, V_1_9, V_1_10, <<"2", ".", "1">>,
      <<"-", "1">>, <<"+", "1">>, <<" ", "1">>, <<"1", "-", "r", "c">>,
      <<"2", ".", "1", "-", "r", "c">>, <<"2", ".", "x">> }

VersionStrings == StringsUpTo(VerChars, MaxVerLen) \cup NamedVersions

TagNames ==
    { V200, V210, V209, V2, <<"v", "2", ".", "1">>, <<"v", "1", ".", "9">>,
      <<"v", "1", ".", "1", "0">>, <<"2", ".", "5">>, <<"v", "2", "0">> }

Prefixes == { V2, <<"v", "1">>, <<"2">>, V9 }

HexChars == <<"a", "b", "c", "d", "e", "f", "0", "1", "2", "3">>

\* the object with number k
Obj(k) == Sha(HexChars[k])

\* the listings of at most n tags with distinct names
RECURSIVE NameLists(_)
NameLists(n) ==
    IF n = 0 THEN {<<>>}
    ELSE LET shorter == NameLists(n - 1)
         IN  shorter \cup
               {Append(t, c) : t \in {u \in shorter : Len(u) = n - 1},
                               c \in TagNames}

DistinctNames(t) == \A i, j \in 1..Len(t) : t[i] = t[j] => i = j

\* a repository with the listing `names`, the k-th tag recorded with object
\* k: every listed id is also the id of a tag object leading elsewhere, so a
\* resolution that dereferenced it would return another id
ListingRemote(names) ==
    [tags |-> [k \in 1..Len(names) |-> [name |-> names[k], sha |-> Obj(k)]],
     heads |-> <<>>,
     tagrefs |-> <<>>,
     tagobjs |-> [o \in {Obj(k) : k \in 1..Len(names)} |->
                    [type |-> "commit", sha |-> Obj(Len(HexChars))]]]

\* a repository whose branches master and main, and whose tag v1, answer
\* with object 1, followed by a chain of n annotated tags (objects 1..n) that
\* ends in the commit n+1; n = 0: object 1 is the commit
ChainRemote(n) ==
    LET first == [type |-> IF n = 0 THEN "commit" ELSE "tag", sha |-> Obj(1)]
    IN  [tags |-> << [name |-> <<"v", "1">>, sha |-> Obj(n + 1)] >>,
         heads |-> (Master :> first) @@ (Main :> first),
         tagrefs |-> (<<"v", "1">> :> first),
         tagobjs |-> [o \in {Obj(k) : k \in 1..n} |->
                        LET k == CHOOSE j \in 1..n : Obj(j) = o
                        IN  [type |-> IF k < n THEN "tag" ELSE "commit",
                             sha |-> Obj(k + 1)]]]

FnCall(fn, v1, v2, remote, tag, failAt, depth) ==
    [fn |-> fn, v1 |-> v1, v2 |-> v2, remote |-> remote, tag |-> tag,
     failAt |-> failAt, depth |-> depth]

CompareCalls ==
    {FnCall("compareVersions", v1, v2, ListingRemote(<<>>), <<>>, 0, 0) :
        v1 \in VersionStrings, v2 \in VersionStrings}

PrefixCalls ==
    {FnCall("getCommitSha", <<>>, <<>>, ListingRemote(names), prefix, failAt, 0) :
        names \in {t \in NameLists(MaxTags) : DistinctNames(t)},
        prefix \in Prefixes, failAt \in 0..1}

BranchCalls ==
    {FnCall(fn, <<>>, <<>>, ChainRemote(n), tag, failAt, n) :
        fn \in {"getCommitSha", "getCommitSha_v1"},
        n \in 0..MaxChain, tag \in {Master, Main, <<"v", "1">>},
        failAt \in 0..(2 * MaxChain + 2)}

InitFn ==
    /\ call \in CompareCalls \cup PrefixCalls \cup BranchCalls
    /\ ret = NoRet
    /\ loop = NoLoop
    /\ pc = "done"
    /\ exitBy = "none"
    /\ config = ZeroConfig
    /\ cfgDisk = [exists |-> FALSE, cfg |-> ZeroConfig]
    /\ files = <<>>
    /\ fi = 0
    /\ lines = <<>>
    /\ li = 0
    /\ changed = FALSE
    /\ cur = NoCur
    /\ lpc = "off"
    /\ ldata = ZeroConfig
    /\ ev = NoEv
    /\ saves = <<>>
    /\ accepted = {}
    /\ allowed = {}
    /\ run = NewRun(1, Today, files, FALSE)

CallCompareVersions ==
    /\ call.fn = "compareVersions"
    /\ ~ret.returned
    /\ ret' = [returned |-> TRUE, val |-> compareVersions(call.v1, call.v2)]
    /\ UNCHANGED <<call, loop>>
    /\ UNCHANGED runVars

CallGetCommitSha ==
    /\ call.fn = "getCommitSha"
    /\ ~ret.returned
    /\ \E r \in getCommitSha(call.remote, call.tag, call.failAt) :
         ret' = [returned |-> TRUE, val |-> r]
    /\ UNCHANGED <<call, loop>>
    /\ UNCHANGED runVars

(***************************************************************************)
(* The first revision's getCommitSha (109-166), step by step: the request  *)
(* for the ref (111-127), one iteration of the loop (133-161), the return  *)
(* (162-165).                                                              *)
(***************************************************************************)
CallGetCommitShaV1 ==
    /\ call.fn = "getCommitSha_v1"
    /\ ~ret.returned
    /\ loop.stage = "idle"
    /\ LET resp == IF call.failAt = 1 THEN ServerError
                   ELSE IF call.tag = Master THEN getBranchHead(call.remote, call.tag)
                   ELSE getTagRef(call.remote, call.tag)
       IN  IF resp.status # 200
           THEN /\ ret' = [returned |-> TRUE, val |-> Failure]
                /\ loop' = [loop EXCEPT !.stage = "exit", !.calls = 1]
           ELSE /\ ret' = ret
                /\ loop' = [loop EXCEPT !.stage = "loop",
                                        !.commitSha = resp.object.sha,
                                        !.type = resp.object.type,
                                        !.calls = 1]
    /\ UNCHANGED call
    /\ UNCHANGED runVars

DerefIteration ==
    /\ call.fn = "getCommitSha_v1"
    /\ loop.stage = "loop"
    /\ loop.type = "tag"
    /\ LET resolved == resolveTag(call.remote, loop.commitSha,
                                  call.failAt = loop.calls + 1)
           resp2 == IF call.failAt = loop.calls + 2 THEN ServerError
                    ELSE getTagObject(call.remote, resolved.sha)
       IN  IF ~resolved.ok
           THEN /\ ret' = [returned |-> TRUE, val |-> Failure]
                /\ loop' = [loop EXCEPT !.stage = "exit",
                                        !.weirdMapping = TRUE,
                                        !.calls = @ + 1]
           ELSE /\ ret' = ret
                /\ loop' = [loop EXCEPT
                              !.stage = IF resp2.status = 200
                                           /\ resp2.object.type = "tag"
                                        THEN "loop" ELSE "after",
                              !.commitSha = resolved.sha,
                              !.weirdMapping = TRUE,
                              !.calls = @ + 2,
                              !.iters = @ + 1,
                              !.from = loop.commitSha,
                              !.targetType =
                                  getTagObject(call.remote, loop.commitSha).object.type,
                              !.refetch = resp2.status]
    /\ UNCHANGED call
    /\ UNCHANGED runVars

ReturnV1 ==
    /\ call.fn = "getCommitSha_v1"
    /\ ~ret.returned
    /\ \/ loop.stage = "after"
       \/ loop.stage = "loop" /\ loop.type # "tag"
    /\ ret' = [returned |-> TRUE,
               val |-> Success(loop.commitSha, IF loop.weirdMapping THEN 1 ELSE 0)]
    /\ loop' = [loop EXCEPT !.stage = "exit"]
    /\ UNCHANGED call
    /\ UNCHANGED runVars

NextFn ==
    \/ CallCompareVersions
    \/ CallGetCommitSha
    \/ CallGetCommitShaV1
    \/ DerefIteration
    \/ ReturnV1

SpecFn == InitFn /\ [][NextFn]_vars

\* a call that can take a step takes it: the function runs to its return
SpecFnFair == SpecFn /\ WF_vars(NextFn)

(***************************************************************************)
(* Properties of the functions.                                            *)
(***************************************************************************)
\* the version of a tag name: the name with a leading v stripped
VersionOf(name) == IF name # <<>> /\ name[1] = "v" THEN Tail(name) ELSE name

PrefixCall ==
    /\ call.fn = "getCommitSha"
    /\ call.tag \notin {Master, Main}

MatchingTags == {i \in 1..Len(call.remote.tags) :
                    StartsWith(call.remote.tags[i].name, call.tag)}

C9_PrefixSelectsGreatest ==
    (PrefixCall /\ ret.returned) =>
      /\ (call.failAt = 0 /\ MatchingTags # {}) => ret.val.ok
      /\ ret.val.ok =>
           \E i \in MatchingTags :
             /\ ret.val.sha = call.remote.tags[i].sha
             /\ \A j \in MatchingTags :
                  compareVersions(VersionOf(call.remote.tags[i].name),
                                  VersionOf(call.remote.tags[j].name)) >= 0
      /\ ([k \in 1..Len(call.remote.tags) |-> call.remote.tags[k].name]
              = <<V200, V210, V209>> /\ call.tag = V2 /\ call.failAt = 0)
           => ret.val = Success(Obj(2), 0)

C9_Witness ==
    /\ PrefixCall
    /\ ret.returned
    /\ Len(call.remote.tags) = 3
    /\ call.remote.tags[1].name = V200
    /\ call.remote.tags[2].name = V210
    /\ call.remote.tags[3].name = V209
    /\ call.tag = V2
    /\ ret.val.ok
    /\ ret.val.sha = Obj(2)
    /\ Obj(2) \in DOMAIN call.remote.tagobjs

\* the decimal digits a string starts with, as a number
RECURSIVE DigitsValue(_)
DigitsValue(s) ==
    IF s = <<>> THEN 0 ELSE 10 * DigitsValue(SubSeq(s, 1, Len(s) - 1)) + DigitVal(s[Len(s)])

LeadingDigits(s) ==
    LET n == IF \E k \in 1..Len(s) : s[k] \notin Digits
             THEN Least({k \in 1..Len(s) : s[k] \notin Digits}) - 1
             ELSE Len(s)
    IN  SubSeq(s, 1, n)

\* a component as an integer: blanks, one optional sign, then digits; what
\* follows the digits is ignored; 0 when there is no digit there
LeadingInt(part) ==
    LET blanks == IF \E k \in 1..Len(part) : part[k] \notin {" ", "\t"}
                  THEN Least({k \in 1..Len(part) : part[k] \notin {" ", "\t"}}) - 1
                  ELSE Len(part)
        t == SubSeq(part, blanks + 1, Len(part))
        signed == t # <<>> /\ t[1] \in {"+", "-"}
        d == LeadingDigits(IF signed THEN Tail(t) ELSE t)
    IN  IF d = <<>> THEN 0
        ELSE IF signed /\ t[1] = "-" THEN 0 - DigitsValue(d)
        ELSE DigitsValue(d)

\* a component as an integer when only a component made of digits is a number
NumericOrZero(part) ==
    IF part # <<>> /\ \A k \in 1..Len(part) : part[k] \in Digits
    THEN DigitsValue(part)
    ELSE 0

\* the sign of the left-to-right comparison of the components of a and b,
\* each counted by Value, missing trailing components counted as 0
SignOfComparison(a, b, Value(_)) ==
    LET pa == Split(a, ".")
        pb == Split(b, ".")
        n == IF Len(pa) > Len(pb) THEN Len(pa) ELSE Len(pb)
        va == [i \in 1..n |-> IF i <= Len(pa) THEN Value(pa[i]) ELSE 0]
        vb == [i \in 1..n |-> IF i <= Len(pb) THEN Value(pb[i]) ELSE 0]
        diff == {i \in 1..n : va[i] # vb[i]}
    IN  IF diff = {} THEN 0
        ELSE IF va[Least(diff)] > vb[Least(diff)] THEN 1 ELSE -1

CompareExamples ==
    /\ (call.v1 = V_2_1_0 /\ call.v2 = V_2_0_9) => ret.val > 0
    /\ (call.v1 = V_2_0 /\ call.v2 = V_2_0_0) => ret.val = 0
    /\ (call.v1 = V_1_9 /\ call.v2 = V_1_10) => ret.val < 0

\* C10 as stated: compareVersions returns the sign of the left-to-right
\* comparison of the numeric components, missing trailing components and
\* non-numeric components counted as 0; the three examples; and
\* compare(a, b) = -compare(b, a).
C10_NonNumericAsZero ==
    (call.fn = "compareVersions" /\ ret.returned) =>
      /\ ret.val = SignOfComparison(call.v1, call.v2, NumericOrZero)
      /\ CompareExamples
      /\ ret.val = 0 - compareVersions(call.v2, call.v1)

\* C10 as amended: each component counts as the integer it starts with
\* (blanks, an optional sign, decimal digits; what follows the digits is
\* ignored) and as 0 when it does not start with one; the rest as stated.
C10_LeadingIntComparison ==
    (call.fn = "compareVersions" /\ ret.returned) =>
      /\ ret.val \in {1, 0, -1}
      /\ ret.val = SignOfComparison(call.v1, call.v2, LeadingInt)
      /\ CompareExamples
      /\ ret.val = 0 - compareVersions(call.v2, call.v1)

\* 2.1-rc against 2.1: the suffix is ignored; the shorter version is padded
C10_Witness ==
    /\ call.fn = "compareVersions"
    /\ ret.returned
    /\ call.v1 = <<"2", ".", "1", "-", "r", "c">>
    /\ call.v2 = <<"2", ".", "1", ".", "0">>
    /\ ret.val = 0

(***************************************************************************)
(* The loop of the first revision's getCommitSha (C19).                    *)
(***************************************************************************)
LoopCall == call.fn = "getCommitSha_v1"

\* an iteration of the loop has run to its end (no error return inside it)
Iterated == LoopCall /\ loop.stage = "loop" /\ loop'.iters = loop.iters + 1

\* the stepwise loop returns what the operator getCommitSha_v1 computes
LoopComputesV1 ==
    (LoopCall /\ ret.returned) =>
      ret.val \in getCommitSha_v1(call.remote, call.tag, call.failAt)

\* C19: the dereference loop terminates for every finite chain of annotated
\* tags (a call returns, after at most as many iterations as the chain has
\* tags); each iteration fetches the tag object of the current identifier
\* and moves to its target; the loop goes on while that target's type is tag
\* and ends as soon as it is not; a non-success answer to the re-fetch ends
\* the loop without an error, and the call returns the working identifier.
C19_LoopTerminates ==
    /\ [](LoopCall => <>ret.returned)
    /\ [](LoopCall => loop.iters <= call.depth)
    /\ [][Iterated =>
            /\ loop'.from = loop.commitSha
            /\ loop'.commitSha = call.remote.tagobjs[loop.commitSha].sha]_vars
    /\ [][Iterated =>
            /\ loop'.targetType # "tag" => loop'.stage = "after"
            /\ (loop'.targetType = "tag" /\ loop'.refetch = 200)
                  => loop'.stage = "loop"]_vars
    /\ [][(Iterated /\ loop'.refetch # 200) => loop'.stage = "after"]_vars
    /\ []((LoopCall /\ ret.returned /\ loop.iters >= 1 /\ loop.refetch # 200)
          => ret.val = Success(loop.commitSha, 1))

====
